---- MODULE Spec2Model ----
(***************************************************************************)
(* Model of the language-detector HTTP service (handlers.go, main.go).     *)
(*                                                                         *)
(* Strings that the code inspects character by character (item texts) are  *)
(* sequences of one-character strings.  A JSON value is a record with a    *)
(* type tag t, as a rapidjson container is.  A request body is the byte    *)
(* layout  <lead whitespace> <keep bytes of doc> <trail whitespace> <junk> *)
(* so that io.LimitReader's truncation and the parser's verdict are        *)
(* computed from it.                                                       *)
(***************************************************************************)
EXTENDS Integers, Sequences, FiniteSets, TLC

\* ------------------------------------------------------------------ bounds
MaxBatch == 3
MaxRequests == 2
MaxTextLen == 5
MaxGoroutines == 2
MaxCalls == 3

\* ------------------------------------------------------- program constants
BODY_LIMIT_BYTES == 1048576
OBJECTS_PER_LOG == 1000
StatusOK == 200
StatusNonAuthoritativeInfo == 203
StatusBadRequest == 400
StatusMovedPermanently == 301
StatusNotFound == 404
StatusInternalServerError == 500

Min(a, b) == IF a < b THEN a ELSE b

\* ------------------------------------------------------------ StripExtras
\* unicode.IsSpace, restricted to the characters of the model's alphabet
IsSpace(c) == c \in {" ", "\t", "\n"}

\* strings.Fields: the maximal runs of non-space characters, in order
RECURSIVE FieldsFrom(_, _, _)
FieldsFrom(text, i, cur) ==
    IF i > Len(text)
    THEN IF cur = <<>> THEN <<>> ELSE <<cur>>
    ELSE IF IsSpace(text[i])
         THEN IF cur = <<>>
              THEN FieldsFrom(text, i + 1, <<>>)
              ELSE <<cur>> \o FieldsFrom(text, i + 1, <<>>)
         ELSE FieldsFrom(text, i + 1, Append(cur, text[i]))

Fields(text) == FieldsFrom(text, 1, <<>>)

\* strings.HasPrefix
StringsHasPrefix(word, prefix) ==
    /\ Len(word) >= Len(prefix)
    /\ SubSeq(word, 1, Len(prefix)) = prefix

\* a loop that returns on its first pass
HasPrefixFirstOnly(word, prefixes) == StringsHasPrefix(word, prefixes[1])

HasPrefix(word, prefixes) ==
    \E k \in 1..Len(prefixes) : StringsHasPrefix(word, prefixes[k])

prefixes == << <<"@">>, <<"h", "t", "t", "p">> >>

RECURSIVE StripWords(_, _, _)
StripWords(words, k, result) ==
    IF k > Len(words)
    THEN result
    ELSE IF ~HasPrefix(words[k], prefixes)
         THEN StripWords(words, k + 1, result \o words[k] \o <<" ">>)
         ELSE StripWords(words, k + 1, result)

\* a variant that joins the kept words without the separator
StripExtrasNoSeparator(text) ==
    LET RECURSIVE Join(_, _, _)
        Join(words, k, result) ==
            IF k > Len(words)
            THEN result
            ELSE IF ~HasPrefix(words[k], prefixes)
                 THEN Join(words, k + 1, result \o words[k])
                 ELSE Join(words, k + 1, result)
    IN Join(Fields(text), 1, <<>>)

StripExtras(text) == StripWords(Fields(text), 1, <<>>)

\* ------------------------------------------------------------- JSON values
JNull == [t |-> "null"]
JNum == [t |-> "num"]
JBool == [t |-> "bool"]
JStr(s) == [t |-> "str", s |-> s]
JArr(a) == [t |-> "arr", a |-> a]
\* an object is its members in document order, each [k |-> key, v |-> value]
JObj(m) == [t |-> "obj", m |-> m]
Member(k, v) == [k |-> k, v |-> v]

\* Container.GetType
GetType(ct) == ct.t

\* Container.GetMember: the first member with that key; an error when the
\* container is no object or has no such member
GetMember(ct, key) ==
    IF ct.t = "obj" /\ \E j \in 1..Len(ct.m) : ct.m[j].k = key
    THEN LET j == CHOOSE x \in 1..Len(ct.m) :
                      /\ ct.m[x].k = key
                      /\ \A y \in 1..(x - 1) : ct.m[y].k # key
         IN [err |-> FALSE, ct |-> ct.m[j].v]
    ELSE [err |-> TRUE, ct |-> JNull]

\* Container.GetArray: the elements; an error and no elements when the
\* container is no array
GetArray(ct) ==
    IF ct.t = "arr" THEN [err |-> FALSE, a |-> ct.a]
                    ELSE [err |-> TRUE, a |-> <<>>]

\* Container.GetString: the string; an error and "" when the container is
\* no string
GetString(ct) ==
    IF ct.t = "str" THEN [err |-> FALSE, s |-> ct.s]
                    ELSE [err |-> TRUE, s |-> <<>>]

\* number of bytes of the compact serialisation of a JSON value
RECURSIVE Size(_)
RECURSIVE SizeAll(_, _)
RECURSIVE SizeMembers(_, _)
SizeAll(a, k) ==
    IF k > Len(a) THEN 0
    ELSE Size(a[k]) + (IF k < Len(a) THEN 1 ELSE 0) + SizeAll(a, k + 1)
SizeMembers(m, k) ==
    IF k > Len(m) THEN 0
    ELSE 2 + Len(m[k].k) + 1 + Size(m[k].v)
         + (IF k < Len(m) THEN 1 ELSE 0) + SizeMembers(m, k + 1)
Size(v) ==
    CASE v.t = "null" -> 4
      [] v.t = "bool" -> 4
      [] v.t = "num" -> 1
      [] v.t = "str" -> 2 + Len(v.s)
      [] v.t = "arr" -> 2 + SizeAll(v.a, 1)
      [] v.t = "obj" -> 2 + SizeMembers(v.m, 1)

\* ------------------------------------------------------------ request body
\* lead: whitespace bytes before the document; keep: how many bytes of the
\* serialisation of doc are there; trail: whitespace bytes after it; junk:
\* non-whitespace bytes after that
Body(lead, doc, keep, trail, junk) ==
    [lead |-> lead, doc |-> doc, keep |-> keep, trail |-> trail, junk |-> junk]
Whole(doc) == Body(0, doc, Size(doc), 0, 0)
NoBody == Body(0, JNull, 0, 0, 0)

\* a reader that gives nothing of a body longer than n bytes
ReadAllOrNothing(b, n) ==
    IF b.lead + b.keep + b.trail + b.junk > n THEN Body(0, b.doc, 0, 0, 0) ELSE b

\* ioutil.ReadAll(io.LimitReader(r.Body, n)): the first n bytes
ReadAll(b, n) ==
    LET lead == Min(b.lead, n)
        keep == Min(b.keep, n - lead)
        trail == Min(b.trail, n - lead - keep)
        junk == Min(b.junk, n - lead - keep - trail)
    IN Body(lead, b.doc, keep, trail, junk)

\* a parser that stops at the end of the first document
NewParsedJsonStopWhenDone(b) ==
    IF b.keep = Size(b.doc)
    THEN [err |-> FALSE, doc |-> b.doc]
    ELSE [err |-> TRUE, doc |-> JNull]

\* rj.NewParsedJson: the bytes must be one complete document, with nothing
\* but whitespace around it
NewParsedJson(b) ==
    IF b.keep = Size(b.doc) /\ b.junk = 0
    THEN [err |-> FALSE, doc |-> b.doc]
    ELSE [err |-> TRUE, doc |-> JNull]

\* ----------------------------------------------------- language detection
\* Detect_language is the cld2 classifier: a deterministic function of the
\* text it is given.  Here the text's first character decides.
Detect_language(text) ==
    IF text = <<>> THEN "un"
    ELSE CASE text[1] = "e" -> "en"
           [] text[1] = "s" -> "es"
           [] text[1] = "x" -> "xx"
           [] OTHER -> "un"

\* the code table loaded from LANG_FILE at startup
KnownLanguages == [en |-> "English", es |-> "Spanish"]
LanguageNames == {"English", "Spanish", "Unknown"}

\* ------------------------------------------------------------------ inputs
TextE == <<"e">>
TextX == <<"x">>
TextA == <<"@", "x", " ", "s">>

TextItem(s) == JObj(<<Member("text", JStr(s))>>)
MissingItem == JObj(<<Member("bad_text", JStr(TextE))>>)
NumberItem == JObj(<<Member("text", JNum)>>)

\* the items of the batches of every length: a known language, a code
\* outside the table, no text
Items == {TextItem(TextE), TextItem(TextX), MissingItem}

\* items that come one to a batch only
OddItems ==
    { JObj(<<Member("text", JNull)>>),
      JObj(<<Member("text", JBool)>>),
      JObj(<<Member("text", JArr(<<>>))>>),
      JObj(<<Member("text", JObj(<<>>))>>),
      JObj(<<Member("bad_text", JStr(TextE)), Member("text", JStr(TextE))>>),
      JObj(<<>>),
      JNum,
      JStr(TextE) }

Envelope(reqs) == JObj(<<Member("request", reqs)>>)

Batches == UNION {[1..k -> Items] : k \in 0..MaxBatch}

MixedBatches ==
    { <<TextItem(TextA)>>, <<NumberItem>>,
      <<MissingItem, TextItem(TextA)>>, <<NumberItem, MissingItem>>,
      <<TextItem(TextA), NumberItem, TextItem(TextE)>>,
      <<NumberItem, TextItem(TextX)>>,
      <<TextItem(TextA), TextItem(TextX)>> }

BatchDocs ==
    {Envelope(JArr(b)) : b \in Batches \cup MixedBatches}
    \cup {Envelope(JArr(<<i>>)) : i \in OddItems}

\* well-formed documents that are no {"request": [...]} envelope
OtherDocs ==
    { JNull, JNum, JBool, JStr(TextE), JArr(<<>>), JArr(<<TextItem(TextE)>>),
      JObj(<<>>), JObj(<<Member("requests", JArr(<<TextItem(TextE)>>))>>),
      Envelope(JNull), Envelope(JNum), Envelope(JStr(TextE)),
      Envelope(TextItem(TextE)), Envelope(JObj(<<>>)) }

OneE == Envelope(JArr(<<TextItem(TextE)>>))

ShapeDocs == {JNull, OneE}

ShapedBodies ==
    UNION { { Body(1, d, Size(d), 1, 0),
              Body(0, d, Size(d), BODY_LIMIT_BYTES, 0),
              Body(0, d, Size(d), BODY_LIMIT_BYTES - Size(d), 1),
              Body(0, d, Size(d), 0, 1),
              Body(0, d, Size(d) - 1, 0, 0),
              Body(0, d, 1, 0, 2),
              Body(BODY_LIMIT_BYTES - 1, d, Size(d), 0, 0),
              Body(BODY_LIMIT_BYTES, d, Size(d), 0, 0) } : d \in ShapeDocs }
    \cup {NoBody}

\* batches followed by whitespace that runs past the limit
PaddedBodies ==
    { Body(0, d, Size(d), BODY_LIMIT_BYTES, 0) :
          d \in {Envelope(JArr(<<>>)), Envelope(JArr(<<MissingItem, TextItem(TextX)>>))} }

Bodies ==
    {Whole(d) : d \in BatchDocs \cup OtherDocs} \cup ShapedBodies \cup PaddedBodies

SmallBodies ==
    { Whole(OneE), Whole(JNull), NoBody,
      Body(0, JObj(<<>>), 1, 0, 2),
      Body(0, OneE, Size(OneE), BODY_LIMIT_BYTES, 0) }

ContentTypes ==
    { "application/json", "", "text/plain", "Application/JSON",
      "application/json; charset=utf-8" }

Request(method, path, ctype, body, readErr) ==
    [method |-> method, path |-> path, query |-> "", ctype |-> ctype,
     body |-> body, readErr |-> readErr]

WithQuery(r, query) == [r EXCEPT !.query = query]

NoRequest == Request("", "", "", NoBody, FALSE)

Requests ==
    {Request("POST", "/", "application/json", b, FALSE) : b \in Bodies}
    \cup {Request("POST", "/", c, b, FALSE) : c \in ContentTypes, b \in SmallBodies}
    \cup {Request("POST", "/", c, b, TRUE) :
              c \in {"application/json", "text/plain"},
              b \in {Whole(OneE), Body(0, JObj(<<>>), 1, 0, 2)}}
    \cup {Request(m, p, c, Whole(JNull), FALSE) :
              m \in {"GET", "PUT"}, p \in {"/", "/fourohfour"},
              c \in {"", "application/json"}}
    \cup {Request("POST", "/fourohfour", "application/json", Whole(JNull), FALSE)}
    \cup {WithQuery(Request(m, "/", "", NoBody, FALSE), "text=e") :
              m \in {"GET", "DELETE"}}
    \cup {WithQuery(Request("POST", "/", "application/json", Whole(OneE), FALSE),
                     "text=x")}
    \cup {Request("GET", "//", "", NoBody, FALSE),
          Request("POST", "//", "application/json", Whole(OneE), FALSE)}

\* ------------------------------------------------------------------- state
VARIABLES
    pc,                          \* where the request in hand is
    req,                         \* the request in hand
    body,                        \* GetRequests: the bytes read
    requests,                    \* LanguageDetectorHandler: the items
    idx,                         \* the loop's position in requests, from 1
    responsesArray,              \* the response containers appended so far
    respCode,
    detected,                    \* the texts given to Detect_language, by item
    w,                           \* the http.ResponseWriter
    invalidRequestsCounter,
    errorsCounter,
    totalRequestsCounter,
    objsProcessedCounterVector,
    resultLangCounterVector,
    numProcessed,
    logged,                      \* throughput summaries written by logProcessed
    stext, sres, sprev, sstep,   \* StripExtras applied on its own
    atAccept,                    \* the outcome counters when req was taken
    gpc, gtmp, gdone             \* logProcessed called from several goroutines

handlerVars == <<pc, req, body, requests, idx, responsesArray, respCode, detected, w>>
counterVars == <<invalidRequestsCounter, errorsCounter, totalRequestsCounter,
                 objsProcessedCounterVector, resultLangCounterVector,
                 numProcessed, logged>>
stripVars == <<stext, sres, sprev, sstep>>
logVars == <<gpc, gtmp, gdone>>
otherVars == <<stripVars, logVars, atAccept>>
vars == <<handlerVars, counterVars, stripVars, logVars, atAccept>>

ContentTypeHeader == "application/json; charset=utf-8"
NoResponse == [status |-> 0, ctype |-> "", body |-> [kind |-> "none"]]
ErrorBody(message) == [kind |-> "error", error |-> message]
ResponseBody(rs) == [kind |-> "response", response |-> rs]
UsageBody == [kind |-> "usage"]
Written(status, b) == [status |-> status, ctype |-> ContentTypeHeader, body |-> b]

InitHandler ==
    /\ pc = "idle"
    /\ req = NoRequest
    /\ body = NoBody
    /\ requests = <<>>
    /\ idx = 1
    /\ responsesArray = <<>>
    /\ respCode = 0
    /\ detected = <<>>
    /\ w = NoResponse

InitMetrics ==
    /\ invalidRequestsCounter = 0
    /\ errorsCounter = 0
    /\ totalRequestsCounter = 0
    /\ objsProcessedCounterVector = [successful |-> 0, unsuccessful |-> 0]
    /\ resultLangCounterVector = [n \in LanguageNames |-> 0]
    /\ numProcessed = 0
    /\ logged = 0

InitStripIdle ==
    /\ stext = <<>>
    /\ sres = <<>>
    /\ sprev = <<>>
    /\ sstep = 0

Goroutines == 1..MaxGoroutines

InitLogIdle ==
    /\ gpc = [g \in Goroutines |-> "idle"]
    /\ gtmp = [g \in Goroutines |-> 0]
    /\ gdone = 0

OutcomeCounters ==
    [objs |-> objsProcessedCounterVector, lang |-> resultLangCounterVector]

Init ==
    /\ InitHandler
    /\ InitMetrics
    /\ InitStripIdle
    /\ InitLogIdle
    /\ atAccept = OutcomeCounters

\* -------------------------------------------------------------- the router
\* getRouter: GET / is Usage, POST / is LanguageDetectorHandler, the rest is
\* the NotFoundHandler
\* mux.Router.ServeHTTP first compares the path with its cleaned form
\* (path.Clean keeping a trailing slash); of the paths here only "//" differs
CleanPath(path) == IF path = "//" THEN "/" ELSE path

\* a router that gives every other method on "/" to Usage
RouteAnyMethod(r) ==
    IF CleanPath(r.path) # r.path THEN "Redirect"
    ELSE IF r.path = "/" /\ r.method = "POST" THEN "LanguageDetectorHandler"
    ELSE IF r.path = "/" THEN "Usage"
    ELSE "NotFound"

Route(r) ==
    IF CleanPath(r.path) # r.path THEN "Redirect"
    ELSE IF r.path = "/" /\ r.method = "GET" THEN "Usage"
    ELSE IF r.path = "/" /\ r.method = "POST" THEN "LanguageDetectorHandler"
    ELSE "NotFound"

\* the server takes a request while none is in hand
Accept(r) ==
    /\ pc \in {"idle", "done"}
    /\ totalRequestsCounter < MaxRequests
    /\ pc' = "route"
    /\ req' = r
    /\ body' = NoBody
    /\ requests' = <<>>
    /\ idx' = 1
    /\ responsesArray' = <<>>
    /\ respCode' = 0
    /\ detected' = <<>>
    /\ w' = NoResponse
    /\ atAccept' = OutcomeCounters
    /\ UNCHANGED <<counterVars, stripVars, logVars>>

\* the router answers a path that is not clean itself: no handler and no
\* HandlerWrapper runs
Redirect ==
    /\ pc = "route"
    /\ Route(req) = "Redirect"
    /\ w' = [status |-> StatusMovedPermanently, ctype |-> "",
             body |-> [kind |-> "redirect", location |-> CleanPath(req.path)]]
    /\ pc' = "done"
    /\ UNCHANGED <<req, body, requests, idx, responsesArray, respCode, detected>>
    /\ UNCHANGED <<counterVars, otherVars>>

Usage ==
    /\ pc = "route"
    /\ Route(req) = "Usage"
    /\ w' = Written(StatusOK, UsageBody)
    /\ pc' = "wrap"
    /\ UNCHANGED <<req, body, requests, idx, responsesArray, respCode, detected>>
    /\ UNCHANGED <<counterVars, otherVars>>

NotFound ==
    /\ pc = "route"
    /\ Route(req) = "NotFound"
    /\ invalidRequestsCounter' = invalidRequestsCounter + 1
    /\ w' = Written(StatusNotFound, ErrorBody("Not found"))
    /\ pc' = "wrap"
    /\ UNCHANGED <<req, body, requests, idx, responsesArray, respCode, detected>>
    /\ UNCHANGED <<errorsCounter, totalRequestsCounter, objsProcessedCounterVector,
                   resultLangCounterVector, numProcessed, logged, otherVars>>

\* HandlerWrapper, after the handler has returned
HandlerWrapper ==
    /\ pc = "wrap"
    /\ totalRequestsCounter' = totalRequestsCounter + 1
    /\ pc' = "done"
    /\ UNCHANGED <<req, body, requests, idx, responsesArray, respCode, detected, w>>
    /\ UNCHANGED <<invalidRequestsCounter, errorsCounter, objsProcessedCounterVector,
                   resultLangCounterVector, numProcessed, logged, otherVars>>

\* ------------------------------------------------------------- GetRequests
\* a comparison that ignores the header's parameters
ContentTypeOKLoose(ctype) ==
    ctype \in {"application/json", "application/json; charset=utf-8"}

ContentTypeOK(ctype) == ctype = "application/json"

InvalidJsonMessage == "Unable to parse request - invalid JSON detected"

incUnsuccessful(v) == [v EXCEPT !.unsuccessful = @ + 1]
incSuccessful(v) == [v EXCEPT !.successful = @ + 1]
incLanguageCount(v, language) == [v EXCEPT ![language] = @ + 1]

\* GetRequests refuses the Content-Type; the handler counts its error return
RejectContentType ==
    /\ pc = "route"
    /\ Route(req) = "LanguageDetectorHandler"
    /\ ~ContentTypeOK(req.ctype)
    /\ invalidRequestsCounter' = invalidRequestsCounter + 1
    /\ errorsCounter' = errorsCounter + 1
    /\ w' = Written(StatusBadRequest,
                    ErrorBody("Content-Type must be set to application/json"))
    /\ objsProcessedCounterVector' = incUnsuccessful(objsProcessedCounterVector)
    /\ pc' = "wrap"
    /\ UNCHANGED <<req, body, requests, idx, responsesArray, respCode, detected>>
    /\ UNCHANGED <<totalRequestsCounter, resultLangCounterVector, numProcessed,
                   logged, otherVars>>

\* GetRequests cannot read or close the body
RejectReadError ==
    /\ pc = "route"
    /\ Route(req) = "LanguageDetectorHandler"
    /\ ContentTypeOK(req.ctype)
    /\ req.readErr
    /\ errorsCounter' = errorsCounter + 1
    /\ w' = Written(StatusInternalServerError, ErrorBody("Error reading request body"))
    /\ objsProcessedCounterVector' = incUnsuccessful(objsProcessedCounterVector)
    /\ pc' = "wrap"
    /\ UNCHANGED <<req, body, requests, idx, responsesArray, respCode, detected>>
    /\ UNCHANGED <<invalidRequestsCounter, totalRequestsCounter,
                   resultLangCounterVector, numProcessed, logged, otherVars>>

\* GetRequests past the Content-Type check and the read
Readable ==
    /\ pc = "route"
    /\ Route(req) = "LanguageDetectorHandler"
    /\ ContentTypeOK(req.ctype)
    /\ ~req.readErr

BodyRead == ReadAll(req.body, BODY_LIMIT_BYTES)
requestJson == NewParsedJson(BodyRead)

\* GetRequests: the bytes read are no JSON document
RejectBadJson ==
    /\ Readable
    /\ requestJson.err
    /\ body' = BodyRead
    /\ invalidRequestsCounter' = invalidRequestsCounter + 1
    /\ errorsCounter' = errorsCounter + 1
    /\ w' = Written(StatusBadRequest, ErrorBody(InvalidJsonMessage))
    /\ objsProcessedCounterVector' = incUnsuccessful(objsProcessedCounterVector)
    /\ pc' = "wrap"
    /\ UNCHANGED <<req, requests, idx, responsesArray, respCode, detected>>
    /\ UNCHANGED <<totalRequestsCounter, resultLangCounterVector, numProcessed,
                   logged, otherVars>>

\* ------------------------------------------------- LanguageDetectorHandler
\* a null document answered as a malformed one
ReturnOnNullAsMalformed ==
    /\ Readable
    /\ ~requestJson.err
    /\ GetType(requestJson.doc) = "null"
    /\ body' = BodyRead
    /\ invalidRequestsCounter' = invalidRequestsCounter + 1
    /\ errorsCounter' = errorsCounter + 1
    /\ w' = Written(StatusBadRequest, ErrorBody(InvalidJsonMessage))
    /\ pc' = "wrap"
    /\ UNCHANGED <<req, requests, idx, responsesArray, respCode, detected>>
    /\ UNCHANGED <<totalRequestsCounter, objsProcessedCounterVector,
                   resultLangCounterVector, numProcessed, logged, otherVars>>

\* the document is null: the handler returns
ReturnOnNull ==
    /\ Readable
    /\ ~requestJson.err
    /\ GetType(requestJson.doc) = "null"
    /\ body' = BodyRead
    /\ pc' = "wrap"
    /\ UNCHANGED <<req, requests, idx, responsesArray, respCode, detected, w>>
    /\ UNCHANGED <<counterVars, otherVars>>

\* the document has no "request" member
RejectNoRequestMember ==
    /\ Readable
    /\ ~requestJson.err
    /\ GetType(requestJson.doc) # "null"
    /\ GetMember(requestJson.doc, "request").err
    /\ body' = BodyRead
    /\ invalidRequestsCounter' = invalidRequestsCounter + 1
    /\ errorsCounter' = errorsCounter + 1
    /\ w' = Written(StatusBadRequest, ErrorBody(InvalidJsonMessage))
    /\ pc' = "wrap"
    /\ UNCHANGED <<req, requests, idx, responsesArray, respCode, detected>>
    /\ UNCHANGED <<totalRequestsCounter, objsProcessedCounterVector,
                   resultLangCounterVector, numProcessed, logged, otherVars>>

\* requests, _, err := requestsCt.GetArray(), err unread; the response
\* document is set up
BeginBatch ==
    /\ Readable
    /\ ~requestJson.err
    /\ GetType(requestJson.doc) # "null"
    /\ ~GetMember(requestJson.doc, "request").err
    /\ body' = BodyRead
    /\ requests' = GetArray(GetMember(requestJson.doc, "request").ct).a
    /\ respCode' = StatusOK
    /\ responsesArray' = <<>>
    /\ idx' = 1
    /\ pc' = "loop"
    /\ UNCHANGED <<req, detected, w>>
    /\ UNCHANGED <<counterVars, otherVars>>

\* one pass of the loop body over one item, up to the response container:
\* text, err := request.GetMember("text"); textStr, err := text.GetString()
\* with err unread; StripExtras; Detect_language; the KnownLanguages lookup
ProcessItemNoStrip(request) ==
    LET text == GetMember(request, "text")
        textStr == GetString(text.ct).s
        code == Detect_language(textStr)
        found == code \in DOMAIN KnownLanguages
        name == IF found THEN KnownLanguages[code] ELSE "Unknown"
    IN IF text.err
       THEN [missing |-> TRUE, textStr |-> <<>>, found |-> FALSE, name |-> "",
             response |-> <<Member("error", "Missing text key")>>]
       ELSE [missing |-> FALSE, textStr |-> textStr, found |-> found, name |-> name,
             response |-> <<Member("iso6391code", code), Member("name", name)>>]

ProcessItem(request) ==
    LET text == GetMember(request, "text")
        textStr == StripExtras(GetString(text.ct).s)
        code == Detect_language(textStr)
        found == code \in DOMAIN KnownLanguages
        name == IF found THEN KnownLanguages[code] ELSE "Unknown"
    IN IF text.err
       THEN [missing |-> TRUE, textStr |-> <<>>, found |-> FALSE, name |-> "",
             response |-> <<Member("error", "Missing text key")>>]
       ELSE [missing |-> FALSE, textStr |-> textStr, found |-> found, name |-> name,
             response |-> <<Member("iso6391code", code), Member("name", name)>>]

\* a status that a found language puts back to 200
ItemRespCodeReset(code, r) ==
    IF r.missing THEN StatusBadRequest
    ELSE IF ~r.found THEN StatusNonAuthoritativeInfo
    ELSE StatusOK

\* respCode after the item: the two assignments of the loop body
ItemRespCode(code, r) ==
    IF r.missing THEN StatusBadRequest
    ELSE IF ~r.found THEN StatusNonAuthoritativeInfo
    ELSE code

\* an append at the front
ArrayPrependContainer(arr, response) == <<response>> \o arr

\* responsesArray.ArrayAppendContainer(response).  Its error return is for a
\* receiver that is no array; responsesArray is the array made for the
\* "response" member, so the two 500 returns of the loop are not taken.
ArrayAppendContainer(arr, response) == Append(arr, response)

\* a loop that ends at the first item without text
NextIdxBreak(i, n, r) == IF r.missing THEN n + 1 ELSE i + 1

\* continue, or the end of the loop body: the next item
NextIdx(i, n, r) == i + 1

logProcessed(n, l) ==
    IF n + 1 = OBJECTS_PER_LOG
    THEN [numProcessed |-> 0, logged |-> l + 1]
    ELSE [numProcessed |-> n + 1, logged |-> l]

\* one pass of `for _, request := range requests`
LoopItem ==
    /\ pc = "loop"
    /\ idx <= Len(requests)
    /\ LET r == ProcessItem(requests[idx])
           lp == logProcessed(numProcessed, logged)
       IN /\ respCode' = ItemRespCode(respCode, r)
          /\ responsesArray' = ArrayAppendContainer(responsesArray, r.response)
          /\ idx' = NextIdx(idx, Len(requests), r)
          /\ IF r.missing
             THEN /\ objsProcessedCounterVector' =
                         incUnsuccessful(objsProcessedCounterVector)
                  /\ UNCHANGED <<detected, resultLangCounterVector, numProcessed, logged>>
             ELSE /\ detected' = Append(detected, [i |-> idx, text |-> r.textStr])
                  /\ resultLangCounterVector' =
                         incLanguageCount(resultLangCounterVector, r.name)
                  /\ objsProcessedCounterVector' =
                         incSuccessful(objsProcessedCounterVector)
                  /\ numProcessed' = lp.numProcessed
                  /\ logged' = lp.logged
    /\ UNCHANGED <<pc, req, body, requests, w>>
    /\ UNCHANGED <<invalidRequestsCounter, errorsCounter, totalRequestsCounter,
                   otherVars>>

\* after the loop: WriteHeader(respCode) and the response document
SendResponse ==
    /\ pc = "loop"
    /\ idx > Len(requests)
    /\ w' = Written(respCode, ResponseBody(responsesArray))
    /\ pc' = "wrap"
    /\ UNCHANGED <<req, body, requests, idx, responsesArray, respCode, detected>>
    /\ UNCHANGED <<counterVars, otherVars>>

Next ==
    \/ \E r \in Requests : Accept(r)
    \/ Redirect
    \/ Usage
    \/ NotFound
    \/ RejectContentType
    \/ RejectReadError
    \/ RejectBadJson
    \/ ReturnOnNull
    \/ RejectNoRequestMember
    \/ BeginBatch
    \/ LoopItem
    \/ SendResponse
    \/ HandlerWrapper

Spec == Init /\ [][Next]_vars

\* ------------------------------------------------- StripExtras on its own
Chars == {" ", "\t", "@", "h", "t", "p"}
Texts == UNION {[1..k -> Chars] : k \in 0..MaxTextLen}

InitStrip ==
    /\ InitHandler
    /\ InitMetrics
    /\ InitLogIdle
    /\ atAccept = OutcomeCounters
    /\ stext \in Texts
    /\ sres = <<>>
    /\ sprev = <<>>
    /\ sstep = 0

\* result := StripExtras(text)
StripOnce ==
    /\ sstep = 0
    /\ sres' = StripExtras(stext)
    /\ sstep' = 1
    /\ UNCHANGED <<stext, sprev, handlerVars, counterVars, logVars, atAccept>>

\* result = StripExtras(result), the result before kept in sprev
StripAgain ==
    /\ sstep = 1
    /\ sprev' = sres
    /\ sres' = StripExtras(sres)
    /\ sstep' = 2
    /\ UNCHANGED <<stext, handlerVars, counterVars, logVars, atAccept>>

NextStrip == StripOnce \/ StripAgain

SpecStrip == InitStrip /\ [][NextStrip]_vars

\* --------------------------------- logProcessed called from many goroutines
\* net/http runs every request in a goroutine of its own and logProcessed
\* takes no lock: its reads and writes of numProcessed are steps of their own.
\* The counter starts two items before a summary is due.
LogStart == OBJECTS_PER_LOG - 2

InitLog ==
    /\ InitHandler
    /\ InitStripIdle
    /\ InitLogIdle
    /\ invalidRequestsCounter = 0
    /\ errorsCounter = 0
    /\ totalRequestsCounter = 0
    /\ objsProcessedCounterVector = [successful |-> 0, unsuccessful |-> 0]
    /\ resultLangCounterVector = [n \in LanguageNames |-> 0]
    /\ numProcessed = LogStart
    /\ logged = 0
    /\ atAccept = OutcomeCounters

LogCallsBegun == gdone + Cardinality({g \in Goroutines : gpc[g] # "idle"})

LogUnchanged ==
    UNCHANGED <<handlerVars, invalidRequestsCounter, errorsCounter,
                totalRequestsCounter, objsProcessedCounterVector,
                resultLangCounterVector, stripVars, atAccept>>

\* a handler's loop reaches logProcessed()
LogCall(g) ==
    /\ gpc[g] = "idle"
    /\ LogCallsBegun < MaxCalls
    /\ gpc' = [gpc EXCEPT ![g] = "read"]
    /\ UNCHANGED <<numProcessed, logged, gtmp, gdone>>
    /\ LogUnchanged

\* numProcessed = numProcessed + 1: the right-hand side is read
LogRead(g) ==
    /\ gpc[g] = "read"
    /\ gtmp' = [gtmp EXCEPT ![g] = numProcessed]
    /\ gpc' = [gpc EXCEPT ![g] = "write"]
    /\ UNCHANGED <<numProcessed, logged, gdone>>
    /\ LogUnchanged

\* ... and the sum is stored
LogWrite(g) ==
    /\ gpc[g] = "write"
    /\ numProcessed' = gtmp[g] + 1
    /\ gpc' = [gpc EXCEPT ![g] = "compare"]
    /\ UNCHANGED <<logged, gtmp, gdone>>
    /\ LogUnchanged

\* if numProcessed == OBJECTS_PER_LOG, on the value now in the variable
LogCompare(g) ==
    /\ gpc[g] = "compare"
    /\ IF numProcessed = OBJECTS_PER_LOG
       THEN gpc' = [gpc EXCEPT ![g] = "info"] /\ gdone' = gdone
       ELSE gpc' = [gpc EXCEPT ![g] = "idle"] /\ gdone' = gdone + 1
    /\ UNCHANGED <<numProcessed, logged, gtmp>>
    /\ LogUnchanged

\* logger.Info: the throughput summary
LogInfo(g) ==
    /\ gpc[g] = "info"
    /\ logged' = logged + 1
    /\ gpc' = [gpc EXCEPT ![g] = "reset"]
    /\ UNCHANGED <<numProcessed, gtmp, gdone>>
    /\ LogUnchanged

\* numProcessed = 0 and the return
LogReset(g) ==
    /\ gpc[g] = "reset"
    /\ numProcessed' = 0
    /\ gpc' = [gpc EXCEPT ![g] = "idle"]
    /\ gdone' = gdone + 1
    /\ UNCHANGED <<logged, gtmp>>
    /\ LogUnchanged

NextLog ==
    \/ \E g \in Goroutines : LogCall(g)
    \/ \E g \in Goroutines : LogRead(g)
    \/ \E g \in Goroutines : LogWrite(g)
    \/ \E g \in Goroutines : LogCompare(g)
    \/ \E g \in Goroutines : LogInfo(g)
    \/ \E g \in Goroutines : LogReset(g)

SpecLog == InitLog /\ [][NextLog]_vars

\* ================================================================== claims
\* what the claims speak of, read off the request in hand
IsDetectPost == Route(req) = "LanguageDetectorHandler"

\* the bytes are one complete JSON document
WellFormedBytes(b) == b.keep = Size(b.doc) /\ b.junk = 0

\* the request passes the gateway: Content-Type, read, parse, not null, a
\* "request" member
ReachesBatch ==
    /\ IsDetectPost
    /\ req.ctype = "application/json"
    /\ ~req.readErr
    /\ WellFormedBytes(BodyRead)
    /\ BodyRead.doc.t = "obj"
    /\ \E j \in 1..Len(BodyRead.doc.m) : BodyRead.doc.m[j].k = "request"

RequestMember == GetMember(BodyRead.doc, "request").ct

\* ... and the "request" member is an array
EnvelopeValid == ReachesBatch /\ RequestMember.t = "arr"

ReqItems == RequestMember.a

HasTextMember(item) ==
    /\ item.t = "obj"
    /\ \E j \in 1..Len(item.m) : item.m[j].k = "text"

TextOf(item) == GetMember(item, "text").ct

HasTextString(item) == HasTextMember(item) /\ TextOf(item).t = "str"

DetectedCode(item) == Detect_language(StripExtras(TextOf(item).s))

MissingTextResult == <<Member("error", "Missing text key")>>

ResultFor(c) ==
    <<Member("iso6391code", c),
      Member("name", IF c \in DOMAIN KnownLanguages THEN KnownLanguages[c] ELSE "Unknown")>>

IsResponse == w.body.kind = "response"

\* C1: a batch with at least one item without text is answered 400, wherever
\* that item is and whatever the other items are
C1_FailureDominates ==
    (pc = "done" /\ EnvelopeValid
        /\ \E i \in 1..Len(ReqItems) : ~HasTextMember(ReqItems[i]))
    => w.status = StatusBadRequest

\* C2: a request that passes the gateway with n items is answered with n
\* entries, entry i being the result of item i, an error or a language
C2_PositionalResponse ==
    (pc = "done" /\ EnvelopeValid)
    => /\ IsResponse
       /\ Len(w.body.response) = Len(ReqItems)
       /\ \A i \in 1..Len(ReqItems) :
             /\ w.body.response[i] = ProcessItem(ReqItems[i]).response
             /\ \/ {w.body.response[i][j].k : j \in 1..Len(w.body.response[i])}
                       = {"error"}
                \/ {w.body.response[i][j].k : j \in 1..Len(w.body.response[i])}
                       = {"iso6391code", "name"}

C2_Witness ==
    /\ pc = "done"
    /\ EnvelopeValid
    /\ ReqItems = <<TextItem(TextX), MissingItem, TextItem(TextE)>>
    /\ w.body.response = <<ResultFor("xx"), MissingTextResult, ResultFor("en")>>

\* C3: a batch in which every item has a text member is answered 203 when
\* some item's detected code is outside KnownLanguages and 200 otherwise
C3_DegradedStatus ==
    (pc = "done" /\ EnvelopeValid
        /\ \A i \in 1..Len(ReqItems) : HasTextMember(ReqItems[i]))
    => w.status =
         IF \E i \in 1..Len(ReqItems) :
                Detect_language(StripExtras(GetString(TextOf(ReqItems[i])).s))
                    \notin DOMAIN KnownLanguages
         THEN StatusNonAuthoritativeInfo
         ELSE StatusOK

C3_Witness ==
    /\ pc = "done"
    /\ EnvelopeValid
    /\ ReqItems = <<TextItem(TextX), TextItem(TextE), TextItem(TextE)>>
    /\ w.status = StatusNonAuthoritativeInfo

\* C4: an item without text gets the error entry at its position, and every
\* later item is still processed and gets its own result at its own position
C4_NeverStopsEarly ==
    (pc = "done" /\ EnvelopeValid)
    => \A i \in 1..Len(ReqItems) :
          ~HasTextMember(ReqItems[i])
          => /\ IsResponse
             /\ Len(w.body.response) = Len(ReqItems)
             /\ w.body.response[i] = MissingTextResult
             /\ \A j \in (i + 1)..Len(ReqItems) :
                   /\ w.body.response[j] = ProcessItem(ReqItems[j]).response
                   /\ HasTextMember(ReqItems[j])
                      => \E k \in 1..Len(detected) : detected[k].i = j

C4_Witness ==
    /\ pc = "done"
    /\ EnvelopeValid
    /\ ReqItems = <<MissingItem, TextItem(TextE), TextItem(TextX)>>
    /\ w.body.response = <<MissingTextResult, ResultFor("en"), ResultFor("xx")>>
    /\ Len(detected) = 2

\* C5: an item whose text is absent or is no string gets the error entry,
\* is not given to Detect_language, and makes the status 400
C5_NonStringTextFails ==
    (pc = "done" /\ EnvelopeValid)
    => \A i \in 1..Len(ReqItems) :
          ~HasTextString(ReqItems[i])
          => /\ IsResponse
             /\ w.body.response[i] = MissingTextResult
             /\ \A k \in 1..Len(detected) : detected[k].i # i
             /\ w.status = StatusBadRequest

\* C6: a well-formed document that is not null and has no "request" array is
\* answered 400 with the invalid-JSON error, and no response envelope
C6_RequestMustBeArray ==
    (pc = "done" /\ IsDetectPost /\ req.ctype = "application/json" /\ ~req.readErr
        /\ WellFormedBytes(BodyRead) /\ BodyRead.doc.t # "null"
        /\ ~EnvelopeValid)
    => /\ w = Written(StatusBadRequest, ErrorBody(InvalidJsonMessage))
       /\ responsesArray = <<>>
       /\ detected = <<>>

\* C7: a POST / whose Content-Type is not exactly application/json is
\* answered 400 with the Content-Type error in the handler's first step, which
\* counts an invalid request and neither reads the body nor runs the loop; the
\* answer then stands
C7_ContentTypeFirst ==
    [][ /\ (pc = "route" /\ IsDetectPost /\ req.ctype # "application/json")
           => /\ w' = Written(StatusBadRequest,
                      ErrorBody("Content-Type must be set to application/json"))
              /\ invalidRequestsCounter' = invalidRequestsCounter + 1
              /\ pc' = "wrap"
              /\ body' = NoBody
              /\ requests' = <<>>
              /\ responsesArray' = <<>>
              /\ detected' = <<>>
        /\ pc = "wrap" => w' = w ]_vars

C7_Witness ==
    /\ pc = "done"
    /\ IsDetectPost
    /\ req.ctype = "application/json; charset=utf-8"
    /\ req.body = Whole(OneE)
    /\ w.status = StatusBadRequest
    /\ body = NoBody

\* C8 as stated: a POST / with Content-Type application/json whose body is
\* not well-formed JSON is answered 400 with the invalid-JSON error
C8_Original ==
    (pc = "done" /\ IsDetectPost /\ req.ctype = "application/json"
        /\ ~WellFormedBytes(req.body))
    => w = Written(StatusBadRequest, ErrorBody(InvalidJsonMessage))

\* C8 amended: a POST / with Content-Type application/json whose body is read
\* without error and whose first BODY_LIMIT_BYTES bytes are not well-formed
\* JSON is answered 400 with the invalid-JSON error in the handler's first
\* step, which counts an invalid request and processes no item; the answer
\* then stands
C8_BadJsonAsRead ==
    [][ /\ (pc = "route" /\ IsDetectPost /\ req.ctype = "application/json"
               /\ ~req.readErr /\ ~WellFormedBytes(BodyRead))
           => /\ w' = Written(StatusBadRequest, ErrorBody(InvalidJsonMessage))
              /\ invalidRequestsCounter' = invalidRequestsCounter + 1
              /\ pc' = "wrap"
              /\ requests' = <<>>
              /\ responsesArray' = <<>>
              /\ detected' = <<>>
        /\ pc = "wrap" => w' = w ]_vars

C8_Witness ==
    /\ pc = "done"
    /\ IsDetectPost
    /\ req.ctype = "application/json"
    /\ ~req.readErr
    /\ req.body = Body(0, JObj(<<>>), 1, 0, 2)
    /\ w = Written(StatusBadRequest, ErrorBody(InvalidJsonMessage))
    /\ invalidRequestsCounter >= 1

\* C9: an item whose text is a string gets, at its position, the code that
\* Detect_language gives for the stripped text and the table's name for it,
\* "Unknown" when the table has none; in every request, whatever came before
C9_ItemResult ==
    (pc = "done" /\ EnvelopeValid)
    => \A i \in 1..Len(ReqItems) :
          HasTextString(ReqItems[i])
          => /\ IsResponse
             /\ Len(w.body.response) >= i
             /\ w.body.response[i] = ResultFor(DetectedCode(ReqItems[i]))

C9_Witness ==
    /\ pc = "done"
    /\ EnvelopeValid
    /\ totalRequestsCounter = 2
    /\ ReqItems = <<TextItem(TextA), TextItem(TextX)>>
    /\ w.body.response = <<ResultFor("es"), ResultFor("xx")>>
    /\ w.body.response[2][2].v = "Unknown"
    /\ w.body.response[1][2].v = "Spanish"

\* C10: StripExtras applied to its own result gives that result again
C10_StripIdempotent == sstep = 2 => sres = sprev

C10_Witness ==
    /\ sstep = 2
    /\ stext = <<"t", "\t", "@", "p", "h">>
    /\ sprev = <<"t", " ">>
    /\ sres = <<"t", " ">>

\* the whitespace-delimited tokens of a text, by their places: a token starts
\* at a non-space character that is first or follows a space, and ends
\* before the next space
TokenStarts(text) ==
    {i \in 1..Len(text) : ~IsSpace(text[i]) /\ (i = 1 \/ IsSpace(text[i - 1]))}

TokenEnd(text, i) ==
    CHOOSE j \in i..Len(text) :
        /\ j = Len(text) \/ IsSpace(text[j + 1])
        /\ \A k \in i..j : ~IsSpace(text[k])

ExcludedToken(text, i, j) ==
    \/ text[i] = "@"
    \/ /\ j - i >= 3
       /\ text[i] = "h" /\ text[i + 1] = "t" /\ text[i + 2] = "t" /\ text[i + 3] = "p"

RECURSIVE KeptFrom(_, _)
KeptFrom(text, i) ==
    IF i > Len(text) THEN <<>>
    ELSE IF i \in TokenStarts(text)
         THEN LET j == TokenEnd(text, i)
              IN (IF ExcludedToken(text, i, j) THEN <<>>
                  ELSE SubSeq(text, i, j) \o <<" ">>) \o KeptFrom(text, j + 1)
         ELSE KeptFrom(text, i + 1)

\* C11: StripExtras returns the tokens that start with neither "@" nor
\* "http", in their order, each followed by one space; a result that is not
\* empty ends with a space, and a text with no token left gives the empty
\* string
C11_StripTokens ==
    sstep = 1
    => /\ sres = KeptFrom(stext, 1)
       /\ sres # <<>> => sres[Len(sres)] = " "
       /\ (\A i \in TokenStarts(stext) : ExcludedToken(stext, i, TokenEnd(stext, i)))
          => sres = <<>>

C11_Witness ==
    /\ sstep = 1
    /\ stext = <<"t", "\t", "@", " ", "p">>
    /\ sres = <<"t", " ", "p", " ">>

\* C12: a POST / that passes the Content-Type check and whose bytes as read
\* are the document null makes the handler return in its first step with
\* nothing written, no item processed and no counter of invalid requests,
\* errors or item outcomes moved; nothing is written afterwards either
C12_NullIsNoOp ==
    [][ /\ (pc = "route" /\ IsDetectPost /\ req.ctype = "application/json"
               /\ ~req.readErr /\ WellFormedBytes(BodyRead)
               /\ BodyRead.doc.t = "null")
           => /\ w' = NoResponse
              /\ pc' = "wrap"
              /\ requests' = <<>>
              /\ responsesArray' = <<>>
              /\ detected' = <<>>
              /\ invalidRequestsCounter' = invalidRequestsCounter
              /\ errorsCounter' = errorsCounter
              /\ objsProcessedCounterVector' = objsProcessedCounterVector
              /\ resultLangCounterVector' = resultLangCounterVector
        /\ pc = "wrap"
           => /\ w' = w
              /\ invalidRequestsCounter' = invalidRequestsCounter
              /\ objsProcessedCounterVector' = objsProcessedCounterVector ]_vars

C12_Witness ==
    /\ pc = "done"
    /\ IsDetectPost
    /\ req.ctype = "application/json"
    /\ req.body = Body(1, JNull, Size(JNull), 1, 0)
    /\ w = NoResponse
    /\ totalRequestsCounter = 1
    /\ invalidRequestsCounter = 0
    /\ errorsCounter = 0
    /\ objsProcessedCounterVector = [successful |-> 0, unsuccessful |-> 0]

BodyLen(b) == b.lead + b.keep + b.trail + b.junk

\* the body, read in full, would be answered with a response envelope
AcceptedInFull ==
    /\ IsDetectPost
    /\ req.ctype = "application/json"
    /\ ~req.readErr
    /\ WellFormedBytes(req.body)
    /\ req.body.doc.t = "obj"
    /\ ~GetMember(req.body.doc, "request").err
    /\ GetMember(req.body.doc, "request").ct.t = "arr"

\* C13 as stated: a body that would be accepted if read in full and that is
\* longer than BODY_LIMIT_BYTES is still answered with a response envelope
C13_Original ==
    (pc = "done" /\ AcceptedInFull /\ BodyLen(req.body) > BODY_LIMIT_BYTES)
    => IsResponse

\* C13 amended: a body that would be accepted if read in full, is longer than
\* BODY_LIMIT_BYTES and has its JSON document end within the first
\* BODY_LIMIT_BYTES bytes (only trailing whitespace is cut) is answered with
\* the response envelope of its items, as the body read in full would be
C13_TrailingPadClassified ==
    (pc = "done" /\ AcceptedInFull /\ BodyLen(req.body) > BODY_LIMIT_BYTES
        /\ req.body.lead + req.body.keep <= BODY_LIMIT_BYTES)
    => /\ IsResponse
       /\ w.status \in {StatusOK, StatusNonAuthoritativeInfo, StatusBadRequest}
       /\ Len(w.body.response) = Len(GetMember(req.body.doc, "request").ct.a)
       /\ \A i \in 1..Len(w.body.response) :
             w.body.response[i] =
                 ProcessItem(GetMember(req.body.doc, "request").ct.a[i]).response

C13_Witness ==
    /\ pc = "done"
    /\ IsDetectPost
    /\ req.ctype = "application/json"
    /\ req.body = Body(0, OneE, Size(OneE), BODY_LIMIT_BYTES, 0)
    /\ body = Body(0, OneE, Size(OneE), BODY_LIMIT_BYTES - Size(OneE), 0)
    /\ w = Written(StatusOK, ResponseBody(<<ResultFor("en")>>))

\* the step out of "route" is a step of GetRequests / LanguageDetectorHandler:
\* an error of theirs, the return on null, or the start of the batch
ToDetectionHandler ==
    /\ pc' \in {"wrap", "loop"}
    /\ w' \in {NoResponse} \cup
              {Written(StatusBadRequest,
                       ErrorBody("Content-Type must be set to application/json")),
               Written(StatusInternalServerError,
                       ErrorBody("Error reading request body")),
               Written(StatusBadRequest, ErrorBody(InvalidJsonMessage))}
    /\ pc' = "loop" => respCode' = StatusOK

ToUsage == w' = Written(StatusOK, UsageBody) /\ pc' = "wrap"

ToNotFound == w' = Written(StatusNotFound, ErrorBody("Not found")) /\ pc' = "wrap"

\* C14 as stated: dispatch is decided by (method, path) alone; GET / answers
\* 200 with the usage document whatever the query and the requests before,
\* POST / goes to the detection handler, every other method and path answers
\* 404 {"error":"Not found"}.
C14_Original ==
    [][pc = "route" =>
          IF req.method = "GET" /\ req.path = "/" THEN ToUsage
          ELSE IF req.method = "POST" /\ req.path = "/" THEN ToDetectionHandler
          ELSE ToNotFound]_vars

\* C14: dispatch is total and decided by (method, path) alone: a path that is
\* not in its cleaned form is answered by the router with 301 to the cleaned
\* path, without any handler; otherwise GET / answers 200 with the usage
\* document whatever the query and the requests before, POST / goes to the
\* detection handler, and every other method and path answers 404
\* {"error":"Not found"}.  That a step exists is looked at for each request
\* while no request has been counted yet (no guard out of "route" reads a
\* counter); which step it is, for every request.
C14_DispatchTotal ==
    /\ [](pc = "route" /\ totalRequestsCounter = 0 => ENABLED <<Next>>_vars)
    /\ [][pc = "route" =>
            IF CleanPath(req.path) # req.path
            THEN /\ w'.status = StatusMovedPermanently
                 /\ w'.body = [kind |-> "redirect", location |-> CleanPath(req.path)]
                 /\ pc' = "done"
                 /\ UNCHANGED counterVars
            ELSE IF req.method = "GET" /\ req.path = "/" THEN ToUsage
            ELSE IF req.method = "POST" /\ req.path = "/" THEN ToDetectionHandler
            ELSE ToNotFound]_vars

\* GET /?text=e answered with the usage document after a rejected request
C14_Witness ==
    /\ pc = "done"
    /\ req = WithQuery(Request("GET", "/", "", NoBody, FALSE), "text=e")
    /\ w = Written(StatusOK, UsageBody)
    /\ totalRequestsCounter = 2
    /\ invalidRequestsCounter = 1

\* an item that is a Failure: no text member, or a text that is no string
IsFailure(item) == ~HasTextString(item)

\* the name a non-Failure item is counted under
ResolvedName(item) ==
    IF DetectedCode(item) \in DOMAIN KnownLanguages
    THEN KnownLanguages[DetectedCode(item)]
    ELSE "Unknown"

\* what the request in hand has added to the outcome counters
AddedUnsuccessful ==
    objsProcessedCounterVector.unsuccessful - atAccept.objs.unsuccessful
AddedSuccessful ==
    objsProcessedCounterVector.successful - atAccept.objs.successful
AddedLanguage(name) == resultLangCounterVector[name] - atAccept.lang[name]

\* C15: a batch of n items with f Failures adds f to "unsuccessful", n - f to
\* "successful" and one to the language counter of each non-Failure item's
\* resolved name ("Unknown" when Degraded); a request rejected at the envelope
\* level adds nothing to these counters.
C15_OutcomeAccounting ==
    (pc = "done" /\ IsDetectPost)
    => IF EnvelopeValid
       THEN LET failures == {i \in 1..Len(ReqItems) : IsFailure(ReqItems[i])}
                others == (1..Len(ReqItems)) \ failures
            IN /\ IsResponse
               /\ AddedUnsuccessful = Cardinality(failures)
               /\ AddedSuccessful = Cardinality(others)
               /\ \A name \in LanguageNames :
                     AddedLanguage(name) =
                         Cardinality({i \in others : ResolvedName(ReqItems[i]) = name})
       ELSE /\ AddedUnsuccessful = 0
            /\ AddedSuccessful = 0
            /\ \A name \in LanguageNames : AddedLanguage(name) = 0

\* no call of logProcessed is in progress
LogQuiet == \A g \in Goroutines : gpc[g] = "idle"

\* C16: whenever no logProcessed call is in progress the throughput counter
\* is in 0..OBJECTS_PER_LOG-1 and every completed call is accounted for, in
\* the counter or in a summary of OBJECTS_PER_LOG items: no increment is
\* lost, no summary is duplicated, the counter never runs past OBJECTS_PER_LOG.
C16_ThroughputCounter ==
    LogQuiet
    => /\ numProcessed \in 0..(OBJECTS_PER_LOG - 1)
       /\ logged * OBJECTS_PER_LOG + numProcessed = LogStart + gdone

====
